---- MODULE Spec2Model ----
(***************************************************************************)
(* Model of the fasthttp request pipeline: FastHTTP._run (the runner loop), *)
(* HTTPClient.send (the send engine) and MiddlewareManager (the hook      *)
(* chain).  One run of the application is a sequential program; its       *)
(* position is pc.  Caller-supplied code (middleware hooks, the route     *)
(* handler) and the transport are the environment: each call of them      *)
(* picks one of the behaviours Python allows (return a value, mutate the  *)
(* argument, return nothing, raise).                                      *)
(***************************************************************************)
EXTENDS Integers, Sequences, FiniteSets, TLC

\* ------------------------------------------------------------------ bounds
\* the run of the application: routes in the list, middlewares in the chain
MaxRoutes == 2
MaxRunMw == 1
\* one send: middlewares in the chain
MaxMw == 2
\* one error record: characters in the response body
MaxBodyLen == 102

\* ------------------------------------------------------------------ values
\* app.py:162-168, the keys of FastHTTP.request_configs
Methods == {"GET", "POST", "PUT", "PATCH", "DELETE"}

\* routing.py:90-95: the attributes Route.__init__ sets (params, json and
\* data are passed to the transport untouched and are left out).  A Route
\* has no response_model attribute.
RouteSet ==
    { [method |-> "GET", url |-> "https://api.test/ok"],
      [method |-> "POST", url |-> "https://api.test/fail"] }

\* types.py:20-55 RequestsOptinal: a dict with optional keys headers,
\* timeout, allow_redirects.  none = TRUE stands for the Python value None
\* (what a hook that forgets to return hands on).
EmptyConfig ==
    [none |-> FALSE, hasHeaders |-> FALSE, headers |-> {},
     hasTimeout |-> FALSE, timeout |-> 0,
     hasRedirects |-> FALSE, allow_redirects |-> FALSE]

NoneConfig == [EmptyConfig EXCEPT !.none = TRUE]

\* examples/test_get.py:5-11, a per-method default with headers and timeout
ExampleConfig ==
    [EmptyConfig EXCEPT !.hasHeaders = TRUE,
                        !.headers = {"Authorization", "User-Agent"},
                        !.hasTimeout = TRUE, !.timeout = 5]

\* a per-method default whose timeout is the number 0
ZeroTimeoutConfig == [EmptyConfig EXCEPT !.hasTimeout = TRUE]

\* the per-method defaults an application is constructed with: in a run of
\* several routes, and in one send
RunDefaultConfigs == {ExampleConfig}
DefaultConfigs == {EmptyConfig, ExampleConfig, ZeroTimeoutConfig}

\* the header a hook at position k of the chain adds
HookHeader(k) == <<"X-A", "X-B", "X-C", "X-D">>[k]

\* the identity of a Response object built by the hook at position k
MwId(k) == <<"mw1", "mw2", "mw3", "mw4">>[k]

\* response.py:111-114: Response.__init__ sets status, text, headers and
\* an empty _handler_result.  id is the object's identity.  The status is
\* stored as given: intStatus tells whether it is an int.
EmptyHR == [tag |-> "None", v |-> ""]

NewResponse(id, status, text, headers) ==
    [none |-> FALSE, id |-> id, status |-> status, intStatus |-> TRUE,
     text |-> text, headers |-> headers, hr |-> EmptyHR]

\* the Python value None where a Response is expected (absence)
NoneResponse ==
    [none |-> TRUE, id |-> "", status |-> 0, intStatus |-> FALSE,
     text |-> "", headers |-> "", hr |-> EmptyHR]

\* what the transport can return: a status and a body
TransportReplies ==
    { [status |-> 200, body |-> "{a:1}"], [status |-> 399, body |-> ""],
      [status |-> 400, body |-> ""], [status |-> 422, body |-> "bad input"] }

\* Exception classes, as far as the except clauses of send and run tell
\* them apart.  ClientConnectorError is a ClientConnectionError;
\* ClientConnectionError stands for its other subclasses (a dropped
\* connection); KeyboardInterrupt stands for the BaseExceptions that are
\* no Exception (an interrupt, a cancellation).
TransportFaults ==
    {"ClientConnectorError", "ClientConnectionError", "TimeoutError",
     "Exception", "KeyboardInterrupt"}
HookExcTypes == {"Exception", "ClientConnectionError"}
HandlerExcTypes == {"Exception", "TimeoutError", "ClientConnectorError"}

\* str(e) of an exception a handler raises: some text or none
HandlerExcTexts(t) == IF t = "Exception" THEN {"", "boom"} ELSE {""}

NoExc == [type |-> "", origin |-> ""]

\* what a handler can return (routing.py:56-63, client.py:112-118): a new
\* Response, one whose status is not an int ("odd"), the Response it was
\* given, a string, another value or None
HandlerReturns ==
    { [tag |-> "Response", v |-> "new"], [tag |-> "Response", v |-> "odd"],
      [tag |-> "Response", v |-> "same"],
      [tag |-> "str", v |-> "handled"], [tag |-> "other", v |-> "{a:1}"],
      [tag |-> "None", v |-> ""] }

VARIABLES
    routes,           \* FastHTTP.routes
    regCalls,         \* history: the routes a registration decorator was applied for
    middleware,       \* history: the middleware argument of FastHTTP(...)
    middlewares,      \* MiddlewareManager.middlewares
    request_configs,  \* FastHTTP.request_configs
    initConfigs,      \* request_configs as constructed (history)
    pc,               \* position of the program
    idx,              \* position of the runner loop in routes
    session,          \* the aiohttp.ClientSession of the run
    k,                \* position in the hook chain being run
    config,           \* send: the threaded config, [ref, val]
    response,         \* send: the threaded Response
    inTry,            \* send: the on_error chain runs inside the try block
    result,           \* what send returned
    exc,              \* the exception in flight
    sent,             \* history: route positions send was called for
    outcomes,         \* history: how each send ended
    log,              \* history: lines of the application logger
    pauses,           \* history: route positions asyncio.sleep followed
    trace,            \* history of this send: calls in order
    beforeLog,        \* history of this send: before_request in/out
    afterLog,         \* history of this send: after_response in/out
    tcalls,           \* history of this send: transport calls
    treply,           \* history of this send: what the transport did
    handlerLog,       \* history of this send: handler argument and return
    errCalls,         \* history of this send: on_error calls
    errors,           \* history of this send: error records built and logged
    startConfig,      \* history of this send: the config send started from
    response_body,    \* FastHTTPBadStatusError.__init__: its argument
    details,          \* FastHTTPBadStatusError.__init__: the details it builds
    handled           \* history: the calls of handle_error and what they did

vars ==
    <<routes, regCalls, middleware, middlewares, request_configs, initConfigs, pc, idx, session, k,
      config, response, inTry, result, exc, sent, outcomes, log, pauses,
      trace, beforeLog, afterLog, tcalls, treply, handlerLog, errCalls, errors,
      startConfig, response_body, details, handled>>

runnerVars == <<idx, session, sent, outcomes, log, pauses>>
staticVars == <<routes, regCalls, middleware, middlewares, initConfigs>>

\* the length of the chain
mwCount == Len(middlewares)
sendHist ==
    <<trace, beforeLog, afterLog, tcalls, treply, handlerLog, errCalls,
      errors, startConfig>>
previewVars == <<response_body, details, handled>>

RECURSIVE SeqsUpTo(_, _)
SeqsUpTo(S, n) ==
    IF n = 0 THEN {<<>>}
    ELSE LET shorter == SeqsUpTo(S, n - 1)
         IN shorter \cup
            {Append(s, x) : s \in {t \in shorter : Len(t) = n - 1}, x \in S}

Route == routes[idx]

NoReply == [kind |-> "none", status |-> 0, body |-> "", fault |-> ""]

\* app.py:150-172 FastHTTP.__init__: the state after construction, with a
\* route list built from Route objects.
\* the middleware instances an application is given
Instances == {"a", "b"}

\* the instances of a chain of n different middlewares
Chain(n) == SubSeq(<<"a", "b", "c", "d">>, 1, n)

\* the values of the middleware argument (app.py:64-74): None, one
\* instance, or a list of instances
NoMiddleware == [tag |-> "None", v |-> <<>>]
OneMiddleware(m) == [tag |-> "single", v |-> <<m>>]
MiddlewareList(l) == [tag |-> "list", v |-> l]

MiddlewareArgs ==
    {NoMiddleware} \cup {OneMiddleware(m) : m \in Instances}
        \cup {MiddlewareList(l) : l \in SeqsUpTo(Instances, MaxMw)}

\* a normalisation that keeps the first occurrence of each instance
NormalizedMiddlewareDedup(arg) ==
    CASE arg.tag = "None" -> <<>>
      [] arg.tag = "list" ->
            SelectSeq([i \in 1..Len(arg.v) |->
                          IF \E j \in 1..(i - 1) : arg.v[j] = arg.v[i]
                          THEN "" ELSE arg.v[i]],
                      LAMBDA m : m # "")
      [] OTHER -> <<arg.v[1]>>

\* app.py:153-158: None gives the empty list, a list is taken as it is,
\* anything else becomes a list of one
NormalizedMiddleware(arg) ==
    CASE arg.tag = "None" -> <<>>
      [] arg.tag = "list" -> arg.v
      [] OTHER -> <<arg.v[1]>>

\* middleware.py:251: self.middlewares = middlewares or []
ManagerMiddlewares(ms) == IF ms = <<>> THEN <<>> ELSE ms

\* app.py:153-160: the chain of an application built with middleware=arg
Built(arg) ==
    /\ middleware = arg
    /\ middlewares = ManagerMiddlewares(NormalizedMiddleware(arg))

Constructed(defaults) ==
    /\ \E d \in defaults :
         request_configs = [m \in Methods |-> IF m = "GET" THEN d ELSE EmptyConfig]
    /\ initConfigs = request_configs
    /\ regCalls = <<>>
    /\ pc = "idle"
    /\ idx = 0
    /\ session = "none"
    /\ k = 0
    /\ config = [ref |-> "fresh", val |-> EmptyConfig]
    /\ response = NoneResponse
    /\ inTry = FALSE
    /\ result = NoneResponse
    /\ exc = NoExc
    /\ sent = <<>>
    /\ outcomes = <<>>
    /\ log = <<>>
    /\ pauses = <<>>
    /\ trace = <<>>
    /\ beforeLog = <<>>
    /\ afterLog = <<>>
    /\ tcalls = <<>>
    /\ treply = NoReply
    /\ handlerLog = <<>>
    /\ errCalls = <<>>
    /\ errors = <<>>
    /\ startConfig = EmptyConfig

\* no error record is being built outside a send
NotBuilt == [built |-> FALSE, has_preview |-> FALSE, body_preview |-> <<>>]

NoPreview ==
    /\ response_body = <<>>
    /\ details = NotBuilt
    /\ handled = <<>>

\* a run of an application with up to MaxRoutes routes
Init ==
    /\ routes \in SeqsUpTo(RouteSet, MaxRoutes)
    /\ \E n \in 0..MaxRunMw : Built(MiddlewareList(Chain(n)))
    /\ Constructed(RunDefaultConfigs)
    /\ NoPreview

\* a run of an application with one route: one call of send
InitSend ==
    /\ routes \in {<<r>> : r \in RouteSet}
    /\ \E n \in 0..MaxMw : Built(MiddlewareList(Chain(n)))
    /\ Constructed(DefaultConfigs)
    /\ NoPreview


\* ------------------------------------------------------------ send engine
\* a comparison that lets status 400 through as a success
IsBadStatusOffByOne(status) == status > 400

\* client.py:79
\* a classification that takes only server errors for failures
IsBadStatusServerOnly(status) == status >= 500

IsBadStatus(status) == status >= 400

\* send without its except asyncio.TimeoutError clause
ExceptClauseNoTimeout(t) ==
    CASE t = "ClientConnectorError" -> "Connection"
      [] t \in {"Exception", "ClientConnectionError", "TimeoutError"} -> "Request"
      [] OTHER -> "none"

\* send without its except Exception clause
ExceptClauseNoGeneric(t) ==
    CASE t = "ClientConnectorError" -> "Connection"
      [] t = "TimeoutError" -> "Timeout"
      [] OTHER -> "none"

\* client.py:121, 134, 149: the except clause that catches an exception of
\* class t raised inside the try block ("none": no clause, it leaves send)
\* a last clause that catches BaseException
ExceptClauseBaseException(t) ==
    CASE t = "ClientConnectorError" -> "Connection"
      [] t = "TimeoutError" -> "Timeout"
      [] OTHER -> "Request"

ExceptClause(t) ==
    CASE t = "ClientConnectorError" -> "Connection"
      [] t = "TimeoutError" -> "Timeout"
      [] t \in {"Exception", "ClientConnectionError"} -> "Request"
      [] OTHER -> "none"

NoDetail == [tag |-> "absent", v |-> 0]

\* exceptions/base.py:93-98 FastHTTPError.__init__
ErrorRecord(kind, message, route, hasStatus, status, timeoutDetail) ==
    [kind |-> kind, message |-> message, url |-> route.url,
     method |-> route.method, hasStatus |-> hasStatus, status_code |-> status,
     timeout |-> timeoutDetail]

\* client.py:82: message=f"HTTP {resp.status}"
HttpMessage == "HTTP status"

\* client.py:81-87 and exceptions/status.py:73-88
\* a BadStatus record built without its status_code argument
BadStatusErrorNoStatus(route, status) ==
    ErrorRecord("BadStatus", HttpMessage, route, FALSE, 0, NoDetail)

BadStatusError(route, status) ==
    ErrorRecord("BadStatus", HttpMessage, route, TRUE, status, NoDetail)

\* client.py:135 config.get("timeout", "default") and
\* exceptions/timeout.py:75-77: details = {"timeout": timeout} if timeout
TimeoutDetail(cfg) ==
    IF ~cfg.hasTimeout THEN [tag |-> "default", v |-> 0]
    ELSE IF cfg.timeout = 0 THEN NoDetail
    ELSE [tag |-> "int", v |-> cfg.timeout]

\* a record that always carries the clause's own message
MessageDefault(clause, text) ==
    CASE clause = "Connection" -> "Connection failed"
      [] clause = "Timeout" -> "Request timed out"
      [] OTHER -> "Unknown error"

\* client.py:123, 137, 151: message=str(e) or the clause's default
Message(clause, text) ==
    IF text # "" THEN text
    ELSE CASE clause = "Connection" -> "Connection failed"
           [] clause = "Timeout" -> "Request timed out"
           [] OTHER -> "Unknown error"

\* client.py:121-126, 134-141, 149-154: the record built by an except
\* clause for an exception whose str is text
CaughtError(clause, route, cfg, text) ==
    CASE clause = "Connection" ->
            ErrorRecord("Connection", Message(clause, text), route, FALSE, 0, NoDetail)
      [] clause = "Timeout" ->
            ErrorRecord("Timeout", Message(clause, text), route, FALSE, 0,
                        TimeoutDetail(cfg))
      [] OTHER ->
            ErrorRecord("Request", Message(clause, text), route, FALSE, 0, NoDetail)

\* client.py:53
ResolveConfig(method) == request_configs[method]

\* client.py:68-76: the arguments of session.request; config.get(key) is
\* None when the key is missing.  allow_redirects is not among the
\* arguments: none is given, whatever the config holds.
TransportArgs(route, cfg) ==
    [method |-> route.method, url |-> route.url,
     headers |-> [none |-> ~cfg.hasHeaders, v |-> cfg.headers],
     timeout |-> [none |-> ~cfg.hasTimeout, v |-> cfg.timeout],
     allow_redirects |-> [none |-> TRUE, v |-> FALSE]]

\* client.py:101-105
BuildResponse(status, body) == NewResponse("engine", status, body, "server")

\* examples/middleware/basic_middleware.py:26-30: a header put into the
\* config's headers
AddHeader(cfg, h) ==
    [cfg EXCEPT !.hasHeaders = TRUE, !.headers = cfg.headers \cup {h}]

\* the behaviours of a before_request hook (middleware.py:40-91):
\*   return  the default, return config
\*   mutate  HeaderMiddleware: the dict it was given, changed in place
\*   copy    a new dict with one more header, a timeout and
\*           allow_redirects set to False
\*   forget  no return statement: None
BeforeKinds(cfg) ==
    IF cfg.none THEN {"return"} ELSE {"return", "mutate", "copy", "forget"}

BeforeResult(kind, pos, cfg) ==
    CASE kind = "return" -> cfg
      [] kind = "mutate" -> [ref |-> cfg.ref, val |-> AddHeader(cfg.val, HookHeader(pos))]
      [] kind = "copy" ->
           [ref |-> "fresh",
            val |-> [AddHeader(cfg.val, HookHeader(pos))
                        EXCEPT !.hasTimeout = TRUE, !.timeout = 10 * pos,
                               !.hasRedirects = TRUE]]
      [] OTHER -> [ref |-> "fresh", val |-> NoneConfig]

Ev(op, pos) == [op |-> op, k |-> pos]

\* a loop over the chain that leaves out its last position
ChainDoneEarly(pos) == pos >= mwCount

\* middleware.py:299, 359, 418: for middleware in self.middlewares is over
\* once every position of the chain has had its turn
ChainDone(pos) == pos > mwCount

\* middleware.py:298-300: current_config = await
\* middleware.before_request(route, current_config): the hook is given the
\* value the previous hook returned (first is what the chain was called with)
\* a chain that hands every hook the config the chain was given
ThreadedConfigFirst(first, current) == first

ThreadedConfig(first, current) == current

\* middleware.py:358-362: current_response = await
\* middleware.after_response(current_response, route, config)
\* a chain that hands every hook the Response the chain was given
ThreadedResponseFirst(first, current) == first

ThreadedResponse(first, current) == current

\* a chain that starts from a dict of its own
ChainInputFresh(cfg) == [ref |-> "fresh", val |-> EmptyConfig]

\* middleware.py:298: current_config = config, the value an empty chain
\* returns (middleware.py:301)
ChainInput(cfg) == cfg

\* a send that hands the per-method default to the later hooks
HookConfigDefault(default, resolved) == default

\* client.py:107-110, 90-93, 130, 145, 158: the config given to the
\* after_response and on_error chains is the local config, which
\* client.py:56 set to what the before_request chain returned
HookConfig(default, resolved) == resolved

\* An exception of class t raised inside the try block of send
\* (client.py:67-160), after the calls evs: the matching except clause
\* builds and logs its record and starts the on_error chain; without one
\* the exception leaves send.
\* an engine that hands the error record to the hooks without logging it
LoggedNever(evs) == evs

\* client.py:88, 127, 142, 155: error.log(), called once the record is
\* built and before process_on_error
Logged(evs) == Append(evs, Ev("log_error", 0))

\* str(e) of an exception of class t raised by the transport or a hook
ExcText(t) == IF t = "TimeoutError" THEN "" ELSE t

Absorb(t, text, origin, evs) ==
    LET clause == ExceptClause(t) IN
    IF clause = "none"
    THEN /\ exc' = [type |-> t, origin |-> origin]
         /\ pc' = "raised"
         /\ outcomes' = Append(outcomes, "raised")
         /\ trace' = trace \o evs
         /\ UNCHANGED <<k, inTry, errors>>
    ELSE /\ errors' = Append(errors, CaughtError(clause, Route, config.val, text))
         /\ trace' = trace \o Logged(evs)
         /\ pc' = "on_error"
         /\ k' = 1
         /\ inTry' = FALSE
         /\ UNCHANGED <<exc, outcomes>>

\* An exception raised outside the try block, or inside an except clause
Escape(t, origin) ==
    /\ exc' = [type |-> t, origin |-> origin]
    /\ pc' = "raised"
    /\ outcomes' = Append(outcomes, "raised")

\* a send whose try block begins before the before_request chain
BeforeChainInTryMoved == TRUE

\* client.py:55-67: the before_request chain is awaited before the try
\* statement begins
BeforeChainInTry == FALSE

\* middleware.py:298-301 process_before_request, one turn of the loop
BeforeRequest ==
    /\ pc = "before"
    /\ ~ChainDone(k)
    /\ \/ \E kind \in BeforeKinds(config.val) :
            LET in == ThreadedConfig([ref |-> "default", val |-> startConfig], config)
                out == BeforeResult(kind, k, in) IN
            /\ config' = out
            /\ request_configs' =
                 IF out.ref = "default"
                 THEN [request_configs EXCEPT ![Route.method] = out.val]
                 ELSE request_configs
            /\ beforeLog' = Append(beforeLog,
                                   [k |-> k, route |-> Route, in |-> in, out |-> out])
            /\ trace' = Append(trace, Ev("before_request", k))
            /\ k' = k + 1
            /\ UNCHANGED <<pc, exc, outcomes, inTry, errors>>
       \/ \E t \in HookExcTypes :
            /\ IF BeforeChainInTry
               THEN Absorb(t, ExcText(t), "before_request",
                           <<Ev("before_request", k)>>)
               ELSE /\ Escape(t, "before_request")
                    /\ trace' = Append(trace, Ev("before_request", k))
                    /\ UNCHANGED <<k, inTry, errors>>
            /\ UNCHANGED <<config, request_configs, beforeLog>>
    /\ UNCHANGED <<staticVars, previewVars, pauses, idx, session, sent, log, response, result,
                   afterLog, tcalls, treply, handlerLog, errCalls,
                   startConfig>>

\* client.py:58-76: the debug line reads config.get("headers") (an
\* AttributeError when a hook handed on None), then the transport is called
\* and answers with a status and a body or raises
Request ==
    /\ pc = "before"
    /\ ChainDone(k)
    /\ IF config.val.none
       THEN /\ Escape("Exception", "config")
            /\ UNCHANGED <<k, inTry, response, tcalls, treply, errors, trace>>
       ELSE /\ tcalls' = Append(tcalls, TransportArgs(Route, config.val))
            /\ \/ \E reply \in TransportReplies :
                    LET status == reply.status
                        body == reply.body IN
                    /\ treply' = [kind |-> "status", status |-> status,
                                  body |-> body, fault |-> ""]
                    /\ IF IsBadStatus(status)
                       THEN /\ errors' = Append(errors, BadStatusError(Route, status))
                            /\ trace' = trace \o Logged(<<Ev("transport", 0)>>)
                            /\ pc' = "on_error"
                            /\ k' = 1
                            /\ inTry' = TRUE
                            /\ UNCHANGED response
                       ELSE /\ response' = BuildResponse(status, body)
                            /\ trace' = Append(trace, Ev("transport", 0))
                            /\ pc' = "after"
                            /\ k' = 1
                            /\ UNCHANGED <<errors, inTry>>
                    /\ UNCHANGED <<exc, outcomes>>
               \/ \E t \in TransportFaults :
                    /\ treply' = [kind |-> "fault", status |-> 0, body |-> "",
                                  fault |-> t]
                    /\ Absorb(t, ExcText(t), "transport", <<Ev("transport", 0)>>)
                    /\ UNCHANGED response
    /\ UNCHANGED <<staticVars, previewVars, pauses, request_configs, idx, session, sent, log, config,
                   result, beforeLog, afterLog, handlerLog, errCalls, startConfig>>


\* the behaviours of an after_response hook (middleware.py:93-153):
\*   return   the default, return response
\*   mutate   ResponseTransformerMiddleware: response.text set in place
\*   replace  a new Response object
\*   forget   no return statement: None
AfterKinds(r) ==
    IF r.none THEN {"return", "replace"}
    ELSE {"return", "mutate", "replace", "forget"}

AfterResult(kind, pos, r) ==
    CASE kind = "return" -> r
      [] kind = "mutate" -> [r EXCEPT !.text = "transformed"]
      [] kind = "replace" -> NewResponse(MwId(pos), 200, "replaced", "middleware")
      [] OTHER -> NoneResponse

\* middleware.py:358-363 process_after_response, one turn of the loop
\* (called at client.py:107-110, inside the try block)
AfterResponse ==
    /\ pc = "after"
    /\ ~ChainDone(k)
    /\ \/ \E kind \in AfterKinds(response) :
            LET in == ThreadedResponse(BuildResponse(treply.status, treply.body), response)
                out == AfterResult(kind, k, in) IN
            /\ response' = out
            /\ afterLog' = Append(afterLog,
                                  [k |-> k, in |-> in, out |-> out,
                                   cfg |-> HookConfig(startConfig, config.val)])
            /\ trace' = Append(trace, Ev("after_response", k))
            /\ k' = k + 1
            /\ UNCHANGED <<pc, exc, outcomes, inTry, errors>>
       \/ \E t \in HookExcTypes :
            /\ Absorb(t, ExcText(t), "after_response", <<Ev("after_response", k)>>)
            /\ UNCHANGED <<response, afterLog>>
    /\ UNCHANGED <<staticVars, previewVars, pauses, request_configs, idx, session, sent, log, config,
                   result, beforeLog, tcalls, treply, handlerLog, errCalls,
                   startConfig>>

\* the values a handler can return when it is given r
HandlerChoices(r) ==
    IF r.none THEN HandlerReturns \ {[tag |-> "Response", v |-> "same"]}
    ELSE HandlerReturns

\* the Response object a handler returns
HandlerResponse(r, v) ==
    CASE v.v = "same" -> r
      [] v.v = "odd" ->
            [NewResponse("handler", 0, "from handler", "handler")
                EXCEPT !.intStatus = FALSE]
      [] OTHER -> NewResponse("handler", 201, "from handler", "handler")

\* client.py:113-119: the handler's return value v folded into the Response
\* r that was passed to the handler.  ok = FALSE: the assignment to an
\* attribute of None raises AttributeError.
\* a fold that leaves the text alone when the handler returns a string
FoldKeepText(r, v) ==
    IF v.tag = "Response" THEN [ok |-> TRUE, res |-> HandlerResponse(r, v)]
    ELSE IF r.none THEN [ok |-> FALSE, res |-> r]
    ELSE [ok |-> TRUE, res |-> [r EXCEPT !.hr = v]]

Fold(r, v) ==
    IF v.tag = "Response" THEN [ok |-> TRUE, res |-> HandlerResponse(r, v)]
    ELSE IF r.none THEN [ok |-> FALSE, res |-> r]
    ELSE IF v.tag = "str"
         THEN [ok |-> TRUE, res |-> [r EXCEPT !.text = v.v, !.hr = v]]
         ELSE [ok |-> TRUE, res |-> [r EXCEPT !.hr = v]]

\* client.py:112-119: route.handler(response), then the fold
Handler ==
    /\ pc = "after"
    /\ ChainDone(k)
    /\ \/ \E v \in HandlerChoices(response) :
            LET f == Fold(response, v) IN
            /\ handlerLog' = Append(handlerLog,
                                    [arg |-> response, raised |-> FALSE, ret |-> v,
                                     etype |-> "", text |-> ""])
            /\ IF f.ok
               THEN /\ result' = f.res
                    /\ response' = IF v.tag = "Response" THEN response ELSE f.res
                    /\ pc' = "returned"
                    /\ outcomes' = Append(outcomes, "Response")
                    /\ trace' = Append(trace, Ev("handler", 0))
                    /\ UNCHANGED <<k, inTry, errors, exc>>
               ELSE /\ Absorb("Exception", ExcText("AttributeError"), "fold",
                              <<Ev("handler", 0)>>)
                    /\ UNCHANGED <<result, response>>
       \/ \E t \in HandlerExcTypes : \E text \in HandlerExcTexts(t) :
            /\ handlerLog' = Append(handlerLog,
                                    [arg |-> response, raised |-> TRUE,
                                     ret |-> [tag |-> "None", v |-> ""],
                                     etype |-> t, text |-> text])
            /\ Absorb(t, text, "handler", <<Ev("handler", 0)>>)
            /\ UNCHANGED <<result, response>>
    /\ UNCHANGED <<staticVars, previewVars, pauses, request_configs, idx, session, sent, log, config,
                   beforeLog, afterLog, tcalls, treply, errCalls, startConfig>>

\* middleware.py:418-419 process_on_error, one turn of the loop.  Called at
\* client.py:90-93 inside the try block (bad status) and at client.py:129,
\* 144, 157 inside an except clause.
OnError ==
    /\ pc = "on_error"
    /\ ~ChainDone(k)
    /\ \/ /\ k' = k + 1
          /\ trace' = Append(trace, Ev("on_error", k))
          /\ errCalls' = Append(errCalls,
                                [k |-> k, kind |-> errors[Len(errors)].kind,
                                 cfg |-> HookConfig(startConfig, config.val),
                                 raised |-> FALSE])
          /\ UNCHANGED <<pc, exc, outcomes, inTry, errors>>
       \/ \E t \in HookExcTypes :
            /\ errCalls' = Append(errCalls,
                                  [k |-> k, kind |-> errors[Len(errors)].kind,
                                   cfg |-> HookConfig(startConfig, config.val),
                                   raised |-> TRUE])
            /\ IF inTry
               THEN Absorb(t, ExcText(t), "on_error", <<Ev("on_error", k)>>)
               ELSE /\ Escape(t, "on_error")
                    /\ trace' = Append(trace, Ev("on_error", k))
                    /\ UNCHANGED <<k, inTry, errors>>
    /\ UNCHANGED <<staticVars, previewVars, pauses, request_configs, idx, session, sent, log, config,
                   response, result, beforeLog, afterLog, tcalls, treply,
                   handlerLog, startConfig>>

\* client.py:95, 132, 147, 160: return None
ReturnNone ==
    /\ pc = "on_error"
    /\ ChainDone(k)
    /\ result' = NoneResponse
    /\ pc' = "returned"
    /\ outcomes' = Append(outcomes, "None")
    /\ UNCHANGED <<staticVars, previewVars, pauses, request_configs, idx, session, sent, log, k,
                   config, response, inTry, exc, sendHist>>

\* ------------------------------------------------------------------ runner
Line(text, pos) == [line |-> text, route |-> pos]

\* app.py:264-270: the start line, then the session is opened
RunStart ==
    /\ pc = "idle"
    /\ log' = Append(log, Line("Sending", Len(routes)))
    /\ session' = "open"
    /\ idx' = 1
    /\ pc' = "loop"
    /\ UNCHANGED <<staticVars, previewVars, pauses, request_configs, k, config, response, inTry,
                   result, exc, sent, outcomes, sendHist>>

\* app.py:271-274 and client.py:53-56: the next route is taken and send is
\* called; send resolves the per-method config and enters the
\* before_request chain
CallSend ==
    /\ pc = "loop"
    /\ idx <= Len(routes)
    /\ session = "open"
    /\ sent' = Append(sent, idx)
    /\ config' = ChainInput([ref |-> "default", val |-> ResolveConfig(Route.method)])
    /\ startConfig' = ResolveConfig(Route.method)
    /\ k' = 1
    /\ pc' = "before"
    /\ response' = NoneResponse
    /\ result' = NoneResponse
    /\ inTry' = FALSE
    /\ trace' = <<>>
    /\ beforeLog' = <<>>
    /\ afterLog' = <<>>
    /\ tcalls' = <<>>
    /\ treply' = NoReply
    /\ handlerLog' = <<>>
    /\ errCalls' = <<>>
    /\ errors' = <<>>
    /\ UNCHANGED <<staticVars, previewVars, pauses, request_configs, idx, session, exc, outcomes, log>>

\* app.py:277: result and isinstance(result.status, int)
IsSuccess(r) == ~r.none /\ r.intStatus

\* app.py:277-308: the outcome line.  On the success branch line 287 reads
\* route.response_model, an attribute Route.__init__ (routing.py:90-95)
\* never sets: AttributeError.
Outcome ==
    /\ pc = "returned"
    /\ IF IsSuccess(result)
       THEN /\ log' = Append(log, Line("ok", idx))
            /\ exc' = [type |-> "Exception", origin |-> "runner"]
            /\ pc' = "raised"
       ELSE /\ log' = Append(log, Line("ERR", idx))
            /\ pc' = "sleep"
            /\ UNCHANGED exc
    /\ UNCHANGED <<staticVars, previewVars, pauses, request_configs, idx, session, k, config,
                   response, inTry, result, sent, outcomes, sendHist>>

\* a loop that takes each route off the list
IteratedRoutesConsumed(rs) == Tail(rs)

\* app.py:271: for route in self.routes reads the list and leaves it as it
\* is
IteratedRoutes(rs) == rs

\* a loop that sends the same route again
NextRouteRetry(i) == i

\* app.py:271: the for loop goes on to the next route of the list
NextRoute(i) == i + 1

\* app.py:310: the pause, then the next turn of the loop
Sleep ==
    /\ pc = "sleep"
    /\ routes' = IteratedRoutes(routes)
    /\ pauses' = Append(pauses, idx)
    /\ idx' = NextRoute(idx)
    /\ pc' = "loop"
    /\ UNCHANGED <<regCalls, middleware, middlewares, initConfigs, previewVars,
                   request_configs, session, k, config, response,
                   inTry, result, exc, sent, outcomes, log, sendHist>>

\* app.py:270, 312-313: the loop is over, the session is released and the
\* end line logged
\* a block that leaves the session as it is when an exception passes
SessionLeak(s, raising) == IF raising THEN s ELSE "closed"

\* app.py:270 async with aiohttp.ClientSession() as session: the session is
\* closed when the block is left, by its end or by an exception
SessionExit(s, raising) == "closed"

RunEnd ==
    /\ pc = "loop"
    /\ idx > Len(routes)
    /\ session' = SessionExit(session, FALSE)
    /\ log' = Append(log, Line("Done", 0))
    /\ pc' = "done"
    /\ UNCHANGED <<staticVars, previewVars, pauses, request_configs, idx, k, config, response, inTry,
                   result, exc, sent, outcomes, sendHist>>

\* app.py:319, 321: the except clause of run that catches class t
\* run without its except KeyboardInterrupt clause
RunClauseNoInterrupt(t) ==
    CASE t \in {"ClientConnectorError", "ClientConnectionError"} -> "connection"
      [] OTHER -> "none"

RunClause(t) ==
    CASE t \in {"ClientConnectorError", "ClientConnectionError"} -> "connection"
      [] t = "KeyboardInterrupt" -> "interrupt"
      [] OTHER -> "none"

\* app.py:270, 315-322: an exception leaves the loop: the session's context
\* manager releases it, and run logs a connection error or an interrupt and
\* returns, or does not handle the exception
RunBoundary ==
    /\ pc = "raised"
    /\ session' = SessionExit(session, TRUE)
    /\ LET clause == RunClause(exc.type) IN
       IF clause = "none"
       THEN /\ pc' = "unhandled"
            /\ UNCHANGED log
       ELSE /\ pc' = "done"
            /\ log' = Append(log, Line(IF clause = "connection"
                                       THEN "Connection error"
                                       ELSE "Interrupted", 0))
    /\ UNCHANGED <<staticVars, previewVars, pauses, request_configs, idx, k, config, response, inTry,
                   result, exc, sent, outcomes, sendHist>>

\* ------------------------------------------------------- registration
\* routing.py:17-89: the keyword arguments Route.__init__ takes
RouteKeywords == {"method", "url", "handler", "params", "json", "data"}

\* app.py:186-194: the keyword arguments the decorator passes to Route
DecoratorKeywords ==
    {"method", "url", "handler", "params", "json", "data", "response_model"}

\* app.py:174-199 _add_route(...)(func), reached through get, post, put,
\* patch and delete (app.py:201-262), before the application runs: the
\* decorator builds the Route and appends it, logs and returns func.  A
\* keyword Route.__init__ does not take is a TypeError raised by the call of
\* Route, before the append; it ends the script that registers the route.
Register ==
    /\ pc = "idle"
    /\ regCalls = <<>>
    /\ \E r \in RouteSet :
          /\ regCalls' = Append(regCalls, r)
          /\ IF DecoratorKeywords \subseteq RouteKeywords
             THEN /\ routes' = Append(routes, r)
                  /\ UNCHANGED <<pc, exc>>
             ELSE /\ routes' = routes
                  /\ exc' = [type |-> "TypeError", origin |-> "registration"]
                  /\ pc' = "aborted"
    /\ UNCHANGED <<middleware, middlewares, initConfigs, previewVars, runnerVars, sendHist,
                   request_configs, k, config, response, inTry, result>>

\* ------------------------------------------------- the BadStatus record
\* exceptions/status.py:78: the length a body is cut to in the preview
PreviewLimit == 100

\* exceptions/status.py:78: the marker appended to a body that was cut
Ellipsis == <<".", ".", ".">>

\* a response body of n characters (a string is a sequence of characters);
\* the characters differ along the body so that a cut shows where it was made
Body(n, c) == [i \in 1..n |-> IF i % 2 = 1 THEN c ELSE "-"]

Bodies == {Body(n, c) : n \in 0..MaxBodyLen, c \in {"a", "b"}}

\* a preview that cuts a body of exactly PreviewLimit characters too
BodyPreviewOffByOne(b) ==
    IF Len(b) >= PreviewLimit
    THEN SubSeq(b, 1, PreviewLimit) \o Ellipsis
    ELSE b

\* exceptions/status.py:78:
\* response_body[:100] + "..." if len(response_body) > 100 else response_body
BodyPreview(b) ==
    IF Len(b) > PreviewLimit
    THEN SubSeq(b, 1, PreviewLimit) \o Ellipsis
    ELSE b

\* exceptions/status.py:76-78: details = {}; if response_body: the preview
BadStatusDetails(b) ==
    IF Len(b) = 0
    THEN [built |-> TRUE, has_preview |-> FALSE, body_preview |-> <<>>]
    ELSE [built |-> TRUE, has_preview |-> TRUE, body_preview |-> BodyPreview(b)]

\* exceptions/status.py:73-88 FastHTTPBadStatusError.__init__, as send
\* calls it with the text of a response of status 400 or more
\* (client.py:80-87)
BadStatusInit ==
    /\ ~details.built
    /\ details' = BadStatusDetails(response_body)
    /\ UNCHANGED <<staticVars, runnerVars, sendHist, request_configs, pc, k,
                   config, response, inTry, result, exc, response_body,
                   handled>>

\* the construction of one BadStatus record for a body of up to MaxBodyLen
\* characters
InitPreview ==
    /\ routes = <<>>
    /\ Built(NoMiddleware)
    /\ Constructed(RunDefaultConfigs)
    /\ response_body \in Bodies
    /\ details = NotBuilt
    /\ handled = <<>>

NextPreview == BadStatusInit

SpecPreview == InitPreview /\ [][NextPreview]_vars

\* the error records handle_error can be given
ErrorRecords ==
    {BadStatusError(r, st) : r \in RouteSet, st \in {400, 422}}
        \cup {CaughtError(c, r, EmptyConfig, "") :
                  c \in {"Connection", "Timeout", "Request"}, r \in RouteSet}

\* a helper that raises whatever raise_it is
HandleStepsAlwaysRaise(raise_it) == <<"log", "raise">>

\* exceptions.py:428-430: error.log(), then raise error if raise_it
HandleSteps(raise_it) ==
    IF raise_it THEN <<"log", "raise">> ELSE <<"log", "return">>

\* exceptions.py:420-430 handle_error(error, raise_it), called by user code
\* outside a run
HandleError ==
    /\ pc = "idle"
    /\ handled = <<>>
    /\ \E e \in ErrorRecords, raise_it \in BOOLEAN :
          handled' = Append(handled, [error |-> e, raise_it |-> raise_it,
                                      steps |-> HandleSteps(raise_it)])
    /\ UNCHANGED <<staticVars, runnerVars, sendHist, request_configs, pc, k,
                   config, response, inTry, result, exc, response_body, details>>

Next ==
    \/ Register
    \/ RunStart
    \/ CallSend
    \/ BeforeRequest
    \/ Request
    \/ AfterResponse
    \/ Handler
    \/ OnError
    \/ ReturnNone
    \/ Outcome
    \/ Sleep
    \/ RunEnd
    \/ RunBoundary

Spec == Init /\ [][Next]_vars

SpecSend == InitSend /\ [][Next]_vars

\* one send of an application built with any middleware argument
InitChain ==
    /\ routes = <<[method |-> "GET", url |-> "https://api.test/ok"]>>
    /\ \E arg \in MiddlewareArgs : Built(arg)
    /\ Constructed({ExampleConfig})
    /\ NoPreview

SpecChain == InitChain /\ [][Next]_vars

\* an application of one route whose user code may call handle_error
InitHandle ==
    /\ routes \in {<<r>> : r \in RouteSet}
    /\ \E n \in 0..MaxRunMw : Built(MiddlewareList(Chain(n)))
    /\ Constructed({EmptyConfig})
    /\ NoPreview

NextHandle == Next \/ HandleError

SpecHandle == InitHandle /\ [][NextHandle]_vars


\* ------------------------------------------------------------------ claims
\* the send of the current route has ended (returned or raised)
SendEnded == Len(sent) > 0 /\ Len(outcomes) = Len(sent)
LastOutcome == outcomes[Len(outcomes)]
SentRoute == routes[sent[Len(sent)]]

\* C1 as stated: whenever the transport returned status s, s < 400 means
\* the handler was invoked and send returned a Response; s >= 400 means send
\* returned None, the handler was not invoked and the error record is a
\* BadStatus error with status_code s.
C1_Original ==
    (SendEnded /\ treply.kind = "status") =>
        IF treply.status < 400
        THEN /\ Len(handlerLog) = 1
             /\ LastOutcome = "Response"
        ELSE /\ LastOutcome = "None"
             /\ handlerLog = <<>>
             /\ errors # <<>>
             /\ errors[1].kind = "BadStatus"
             /\ errors[1].hasStatus
             /\ errors[1].status_code = treply.status

\* C1 amended: for a status s < 400 send builds a Response with status s
\* and the body; send returns a Response exactly when no error record is
\* built (no after_response hook raised, the handler was invoked once and
\* returned, the fold succeeded), and otherwise does not return a Response.
\* For s >= 400 the handler is never invoked, the first error record is a
\* BadStatus error with status_code s, and send returns None unless an
\* exception raised by an on_error hook leaves send.
C1_StatusPartition ==
    treply.kind = "status" =>
        IF treply.status < 400
        THEN /\ (pc = "after" /\ afterLog = <<>>) =>
                    response = NewResponse("engine", treply.status, treply.body, "server")
             /\ SendEnded =>
                    /\ (LastOutcome = "Response") <=> (errors = <<>>)
                    /\ LastOutcome = "Response" =>
                           (Len(handlerLog) = 1 /\ ~handlerLog[1].raised)
        ELSE /\ handlerLog = <<>>
             /\ errors # <<>>
             /\ errors[1].kind = "BadStatus"
             /\ errors[1].hasStatus
             /\ errors[1].status_code = treply.status
             /\ SendEnded =>
                    \/ LastOutcome = "None"
                    \/ (LastOutcome = "raised" /\ exc.origin = "on_error")

\* a send with the largest successful status, through a chain, that
\* returned a Response
C1_Witness ==
    /\ SendEnded
    /\ mwCount > 0
    /\ treply.kind = "status"
    /\ treply.status = 399
    /\ Len(handlerLog) = 1
    /\ LastOutcome = "Response"


\* the transport's answer makes the send a failure, and the kind of error
\* record the claim names for it
FailureCase ==
    \/ treply.kind = "status" /\ treply.status >= 400
    \/ treply.kind = "fault" /\ treply.fault # "KeyboardInterrupt"

ClaimedKind ==
    IF treply.kind = "status" THEN "BadStatus"
    ELSE IF treply.fault = "ClientConnectorError" THEN "Connection"
    ELSE IF treply.fault = "TimeoutError" THEN "Timeout"
    ELSE "Request"

\* C2 as stated: a connect failure, a timeout, a status >= 400 and any other
\* fault of the transport yield a Connection, Timeout, BadStatus and Request
\* record; the record carries the route's url and method and send returns
\* None.
C2_Original ==
    (SendEnded /\ FailureCase) =>
        /\ errors # <<>>
        /\ errors[1].kind = ClaimedKind
        /\ errors[1].url = SentRoute.url
        /\ errors[1].method = SentRoute.method
        /\ LastOutcome = "None"

\* C2 amended: the classification and the record's url and method are as
\* stated, and send never returns a Response; it returns None unless an
\* exception raised by an on_error hook leaves send.
C2_FaultClassification ==
    FailureCase =>
        /\ errors # <<>>
        /\ errors[1].kind = ClaimedKind
        /\ errors[1].url = SentRoute.url
        /\ errors[1].method = SentRoute.method
        /\ SendEnded =>
              \/ LastOutcome = "None" /\ result.none
              \/ LastOutcome = "raised" /\ exc.origin = "on_error"

\* a timeout of the transport, handed to an on_error hook, absorbed
C2_Witness ==
    /\ SendEnded
    /\ treply.kind = "fault"
    /\ treply.fault = "TimeoutError"
    /\ errors[1].kind = "Timeout"
    /\ Len(errCalls) > 0
    /\ LastOutcome = "None"

\* C3 as stated: whatever the chain, the handler and the transport do (a
\* status or one of its faults; an interrupt of the process is no outcome of
\* the transport), a call of send ends by returning a Response or None,
\* never by an exception leaving send.
C3_Original ==
    (SendEnded /\ ~(treply.kind = "fault" /\ treply.fault = "KeyboardInterrupt")) =>
        LastOutcome \in {"Response", "None"}

\* C3 amended: send ends by returning a Response or None, or by an
\* exception leaving it; an exception leaves send only if a before_request
\* hook raised it (or handed on None, which the read of the config trips
\* over), an on_error hook raised it, or it is no Exception (an interrupt).
\* Every Exception raised by the transport, an after_response hook, the
\* handler or the fold is absorbed.
C3_SendOutcome ==
    SendEnded =>
        \/ LastOutcome = "Response" /\ ~result.none
        \/ LastOutcome = "None" /\ result.none
        \/ /\ LastOutcome = "raised"
           /\ \/ exc.origin \in {"before_request", "config", "on_error"}
              \/ exc.type = "KeyboardInterrupt"

\* a handler's exception absorbed: send returned None
C3_Witness ==
    /\ SendEnded
    /\ Len(handlerLog) = 1
    /\ handlerLog[1].raised
    /\ LastOutcome = "None"

\* the on_error hooks were called once each, in registration order
OnErrorOnceInOrder ==
    /\ Len(errCalls) = mwCount
    /\ \A j \in 1..Len(errCalls) : errCalls[j].k = j

FinalConfig ==
    IF mwCount = 0 THEN [ref |-> "default", val |-> initConfigs[SentRoute.method]]
    ELSE beforeLog[mwCount].out

\* C5: the before_request hooks run in registration order, each with the
\* send's route; hook 1 receives the default config of the route's method,
\* hook k+1 the value hook k returned, and the transport is called with the
\* headers and the timeout of the value the last hook returned.
C5_PreSendThreading ==
    /\ \A j \in 1..Len(beforeLog) :
          /\ beforeLog[j].k = j
          /\ beforeLog[j].route = SentRoute
          /\ beforeLog[j].in =
               IF j = 1
               THEN [ref |-> "default", val |-> initConfigs[SentRoute.method]]
               ELSE beforeLog[j - 1].out
    /\ tcalls # <<>> =>
          /\ Len(tcalls) = 1
          /\ Len(beforeLog) = mwCount
          /\ tcalls[1].headers =
               [none |-> ~FinalConfig.val.hasHeaders, v |-> FinalConfig.val.headers]
          /\ tcalls[1].timeout =
               [none |-> ~FinalConfig.val.hasTimeout, v |-> FinalConfig.val.timeout]

\* two hooks, each adding its own header: the transport call carries both
C5_Witness ==
    /\ mwCount = 2
    /\ Len(tcalls) = 1
    /\ ~tcalls[1].headers.none
    /\ {HookHeader(1), HookHeader(2)} \subseteq tcalls[1].headers.v
    /\ ~(HookHeader(2) \in beforeLog[2].in.val.headers)

\* the Response the after_response chain ends with
FinalResponse ==
    IF mwCount = 0 THEN NewResponse("engine", treply.status, treply.body, "server")
    ELSE afterLog[mwCount].out

\* C6: on a status below 400 the after_response hooks run in registration
\* order, hook 1 with the Response built from the transport's status and
\* body, hook k+1 with the Response hook k returned; the handler is called
\* after all of them, with the Response the last hook returned, and that
\* Response is the one folded and returned.
C6_PostReceiveThreading ==
    /\ afterLog # <<>> => (treply.kind = "status" /\ treply.status < 400)
    /\ \A j \in 1..Len(afterLog) :
          /\ afterLog[j].k = j
          /\ afterLog[j].in =
               IF j = 1
               THEN NewResponse("engine", treply.status, treply.body, "server")
               ELSE afterLog[j - 1].out
    /\ handlerLog # <<>> =>
          /\ Len(afterLog) = mwCount
          /\ handlerLog[1].arg = FinalResponse
          /\ \A i, j \in 1..Len(trace) :
                (trace[i].op = "after_response" /\ trace[j].op = "handler") => i < j
    /\ (SendEnded /\ LastOutcome = "Response"
          /\ handlerLog[1].ret.tag # "Response") => result.id = FinalResponse.id

\* a chain of two whose first hook replaces the Response: the second hook
\* and then the handler receive the replacement
C6_Witness ==
    /\ mwCount = 2
    /\ Len(handlerLog) = 1
    /\ afterLog[1].out.id = MwId(1)
    /\ afterLog[2].in.id = MwId(1)
    /\ handlerLog[1].arg.id = MwId(1)
    /\ SendEnded
    /\ LastOutcome = "Response"

\* C7: with r the Response passed to the handler and v what it returned,
\* send returns v when v is a Response; r with text v and the same status
\* and headers when v is a string; r with the same text, status and headers
\* and handler_result v when v is another value; r unchanged with an empty
\* handler_result when v is None.
C7_HandlerFold ==
    (SendEnded /\ LastOutcome = "Response") =>
        LET r == handlerLog[1].arg
            v == handlerLog[1].ret IN
        /\ Len(handlerLog) = 1
        /\ ~handlerLog[1].raised
        /\ (v.tag = "Response" /\ v.v = "same") => result = r
        /\ (v.tag = "Response" /\ v.v # "same") =>
              /\ result.id = "handler"
              /\ result.id # r.id
              /\ result.intStatus = (v.v = "new")
              /\ v.v = "new" => result.status = 201
        /\ v.tag = "str" =>
              /\ result.id = r.id
              /\ result.text = v.v
              /\ result.status = r.status
              /\ result.headers = r.headers
        /\ v.tag = "other" =>
              /\ result.id = r.id
              /\ result.text = r.text
              /\ result.status = r.status
              /\ result.headers = r.headers
              /\ result.hr = v
        /\ v.tag = "None" => (result = r /\ result.hr = EmptyHR)

\* a handler returning a string on a 200: the text is the string, the status
\* still 200
C7_Witness ==
    /\ SendEnded
    /\ LastOutcome = "Response"
    /\ treply.kind = "status"
    /\ treply.status = 200
    /\ handlerLog[1].ret = [tag |-> "str", v |-> "handled"]
    /\ handlerLog[1].arg.text # "handled"
    /\ result.text = "handled"
    /\ result.status = 200

\* C8: the handler_result of a Response returned by send holds a value only
\* when the handler returned neither a string nor a Response; after a
\* handler that returned a string it is still empty.
C8_Original ==
    (SendEnded /\ LastOutcome = "Response") =>
        /\ result.hr # EmptyHR => ~(handlerLog[1].ret.tag \in {"str", "Response"})
        /\ handlerLog[1].ret.tag = "str" => result.hr = EmptyHR

\* C9: after any sends, whatever the hooks did to the config they were
\* given, the per-method defaults of the application are those of its
\* construction, and a send starts its before_request chain from them.
C9_Original ==
    /\ (SendEnded /\ LastOutcome # "raised") => request_configs = initConfigs
    /\ Len(sent) > 0 => startConfig = initConfigs[SentRoute.method]

\* the runner's loop has ended, and not by an exception of a hook or an
\* interrupt
RunEnded ==
    /\ pc \in {"done", "unhandled"}
    /\ ~(exc.origin \in {"before_request", "config", "on_error"})
    /\ exc.type # "KeyboardInterrupt"

\* C10: whatever the transport answers, the runner calls send once for every
\* registered route, in registration order; a send that returned None keeps
\* no later route from being sent.
C10_Original ==
    /\ \A i \in 1..Len(sent) : sent[i] = i
    /\ RunEnded => Len(sent) = Len(routes)


\* a call of send is under way
InFlight == pc \in {"before", "after", "on_error"}

\* the lines of the log that report a route's outcome
OutcomeLines == SelectSeq(log, LAMBDA l : l.line \in {"ok", "ERR"})

\* C11: at most one route is in flight; the send of a route starts only
\* after every earlier route's send has ended, its outcome line is logged
\* and its pause has elapsed; every route sent, succeeded or failed, is
\* followed by exactly one pause, and the run-end line comes after the last
\* pause.
C11_Original ==
    /\ Len(sent) - Len(outcomes) \in {0, 1}
    /\ InFlight =>
          /\ Len(sent) = Len(outcomes) + 1
          /\ pauses = [i \in 1..(Len(sent) - 1) |-> i]
          /\ Len(OutcomeLines) = Len(sent) - 1
    /\ RunEnded => pauses = sent
    /\ (log # <<>> /\ log[Len(log)].line = "Done") =>
          pauses = [i \in 1..Len(routes) |-> i]


\* a hook of the send raised: a before_request hook (the exception left
\* send), an after_response hook (its call is followed at once by the log
\* of an error record) or an on_error hook
HookRaised ==
    \/ exc.origin = "before_request"
    \/ \E i \in 1..(Len(trace) - 1) :
          trace[i].op = "after_response" /\ trace[i + 1].op = "log_error"
    \/ \E j \in 1..Len(errCalls) : errCalls[j].raised

\* C12: an exception raised inside a before_request, after_response or
\* on_error hook is not absorbed by send: no error record is built for it
\* and send does not return None, the exception leaves send and reaches run.
C12_Original ==
    /\ (SendEnded /\ HookRaised) =>
          /\ LastOutcome = "raised"
          /\ exc.origin \in {"before_request", "after_response", "on_error"}
    /\ (pc \in {"done", "unhandled"} /\ HookRaised) =>
          exc.origin \in {"before_request", "after_response", "on_error"}


\* the transport raised or answered with a status of 400 or more
TransportFailed ==
    \/ treply.kind = "fault"
    \/ treply.kind = "status" /\ treply.status >= 400

\* C13 as stated: a send takes one of two paths: the after_response hooks
\* and the handler run and a Response is returned, or the on_error hooks run
\* and None is returned; no send runs both an after_response hook and an
\* on_error hook, and no send that called the handler returns None.
C13_Original ==
    /\ ~(\E i, j \in 1..Len(trace) :
            trace[i].op = "after_response" /\ trace[j].op = "on_error")
    /\ (SendEnded /\ handlerLog # <<>>) => LastOutcome = "Response"

\* C13 amended: a send that returns a Response has run every
\* after_response hook and the handler and no on_error hook, and built no
\* error record; a send whose transport call raised or answered 400 or more
\* runs no after_response hook and does not call the handler; a send that
\* called the handler returns None only if the handler raised or what it
\* returned could not be stored on the Response it was given (the chain
\* handed on None), and then the on_error hooks run after the
\* after_response hooks.
C13_ExclusivePaths ==
    /\ (SendEnded /\ LastOutcome = "Response") =>
          /\ Len(afterLog) = mwCount
          /\ Len(handlerLog) = 1
          /\ errCalls = <<>>
          /\ errors = <<>>
    /\ TransportFailed =>
          /\ handlerLog = <<>>
          /\ \A i \in 1..Len(trace) :
                ~(trace[i].op \in {"after_response", "handler"})
    /\ (SendEnded /\ handlerLog # <<>> /\ LastOutcome = "None") =>
          /\ \/ handlerLog[1].raised
             \/ handlerLog[1].arg.none /\ handlerLog[1].ret.tag # "Response"
          /\ \A i, j \in 1..Len(trace) :
                (trace[i].op = "after_response" /\ trace[j].op = "on_error")
                    => i < j

\* a handler that raised after both after_response hooks ran: both on_error
\* hooks run and send returns None
C13_Witness ==
    /\ SendEnded
    /\ mwCount = 2
    /\ Len(afterLog) = 2
    /\ Len(handlerLog) = 1
    /\ handlerLog[1].raised
    /\ Len(errCalls) = 2
    /\ LastOutcome = "None"


\* C14 as stated: for every body b of a response of status 400 or more, the
\* record's details.body_preview is b when b has at most 100 characters, and
\* the first 100 characters of b followed by "..." (103 characters) when b
\* has more.
C14_Original ==
    details.built =>
        /\ details.has_preview
        /\ Len(response_body) <= 100 => details.body_preview = response_body
        /\ Len(response_body) > 100 =>
              /\ Len(details.body_preview) = 103
              /\ \A i \in 1..100 : details.body_preview[i] = response_body[i]
              /\ \A i \in 101..103 : details.body_preview[i] = "."

\* C14 amended: the same for every body that is not empty; for an empty
\* body the details have no body_preview entry.
C14_BodyPreview ==
    details.built =>
        /\ details.has_preview <=> Len(response_body) > 0
        /\ (details.has_preview /\ Len(response_body) <= 100) =>
              details.body_preview = response_body
        /\ Len(response_body) > 100 =>
              /\ Len(details.body_preview) = 103
              /\ \A i \in 1..100 : details.body_preview[i] = response_body[i]
              /\ \A i \in 101..103 : details.body_preview[i] = "."

\* a body of 101 characters, cut to 100 and the marker
C14_Witness ==
    /\ details.built
    /\ Len(response_body) = 101
    /\ Len(details.body_preview) = 103
    /\ details.body_preview[100] = response_body[100]
    /\ details.body_preview[101] = "."


\* C15: when the transport raises a timeout, the Timeout record's
\* details.timeout is the timeout of the resolved config, whatever value is
\* configured, and the marker "default" when the resolved config has no
\* timeout; send returns None.
C15_Original ==
    (treply.kind = "fault" /\ treply.fault = "TimeoutError") =>
        /\ errors # <<>>
        /\ errors[1].kind = "Timeout"
        /\ errors[1].timeout =
             IF config.val.hasTimeout
             THEN [tag |-> "int", v |-> config.val.timeout]
             ELSE [tag |-> "default", v |-> 0]
        /\ SendEnded => LastOutcome = "None"


\* C16: every application of a registration decorator to a handler appends
\* one Route of that method and url at the end of the route list and leaves
\* the earlier entries as they were, returns normally, and calls no
\* transport.
C16_Original ==
    [][regCalls' # regCalls =>
          /\ routes' = Append(routes, regCalls'[Len(regCalls')])
          /\ exc' = exc
          /\ tcalls' = tcalls]_vars


\* the last line of the log
LastLine == log[Len(log)].line

\* C17: an exception that leaves the runner's loop is handled by run: one
\* of the connection class is logged as a connection error and run returns,
\* a keyboard interrupt is logged as a warning and run returns, any other
\* exception leaves run and nothing is logged for it.
C17_RunBoundary ==
    (pc \in {"done", "unhandled"} /\ exc # NoExc) =>
        IF exc.type \in {"ClientConnectorError", "ClientConnectionError"}
        THEN pc = "done" /\ LastLine = "Connection error"
        ELSE IF exc.type = "KeyboardInterrupt"
        THEN pc = "done" /\ LastLine = "Interrupted"
        ELSE /\ pc = "unhandled"
             /\ ~(LastLine \in {"Connection error", "Interrupted", "Done"})

\* an on_error hook raised a connection error: run logged it and returned
C17_Witness ==
    /\ pc = "done"
    /\ exc.type = "ClientConnectionError"
    /\ exc.origin = "on_error"
    /\ LastLine = "Connection error"


\* C18: a run opens one session before its first send, every send runs
\* while that session is open, and the session is closed when the loop has
\* ended, by its end or by an exception (of a hook, of the step after a
\* successful send); a closed session is never opened again and no send is
\* called after it was closed.
C18_SessionLifecycle ==
    /\ [](/\ pc = "idle" => (session = "none" /\ sent = <<>>)
          /\ pc \in {"loop", "before", "after", "on_error", "returned",
                     "sleep", "raised"} => session = "open"
          /\ pc \in {"done", "unhandled"} => session = "closed")
    /\ [][/\ session' = "open" => session \in {"none", "open"}
          /\ session = "open" => session' # "none"
          /\ session = "closed" => (session' = "closed" /\ sent' = sent)
          /\ sent' # sent => (session = "open" /\ session' = "open")]_vars

\* a before_request hook of the second route raised: the session is closed
C18_Witness ==
    /\ pc = "unhandled"
    /\ exc.origin = "before_request"
    /\ Len(sent) = 2
    /\ session = "closed"


\* C19: after a successful send the runner validates the handler_result of
\* a route that has a result schema, and lets a validation failure leave
\* the loop; for a route without a schema (a Route has no schema attribute
\* of its own) it skips the step: nothing is raised by it and the pause
\* follows.
C19_Original ==
    /\ pc \in {"raised", "unhandled"} => exc.origin # "runner"
    /\ (pc = "sleep" /\ LastOutcome = "Response") => LastLine = "ok"

\* C20: with any outcomes of the routes (success, connect failure, timeout,
\* bad status, other fault) and no hook raising and no interrupt, the run
\* ends having sent the last route, logged the run-end line and closed the
\* session.
C20_Original ==
    RunEnded =>
        /\ pc = "done"
        /\ Len(outcomes) = Len(routes)
        /\ LastLine = "Done"
        /\ session = "closed"


\* C21: the transport call of a send is given the allow_redirects of the
\* resolved config, as it is given its headers and its timeout: the value a
\* per-method default or a before_request hook set, and none when the
\* config has none.
C21_Original ==
    tcalls # <<>> =>
        tcalls[1].allow_redirects =
            [none |-> ~config.val.hasRedirects, v |-> config.val.allow_redirects]


\* C22: an error record built by send has a status_code if and only if it
\* is a BadStatus record; Connection, Timeout and Request records have none.
C22_StatusCodeOnlyBadStatus ==
    \A i \in 1..Len(errors) :
        /\ errors[i].kind \in {"BadStatus", "Connection", "Timeout", "Request"}
        /\ errors[i].hasStatus <=> errors[i].kind = "BadStatus"
        /\ errors[i].hasStatus =>
              (treply.kind = "status" /\ errors[i].status_code = treply.status)

\* a send that built a BadStatus record and then a Request record
C22_Witness ==
    /\ Len(errors) = 2
    /\ errors[1].kind = "BadStatus"
    /\ errors[1].hasStatus
    /\ errors[2].kind = "Request"
    /\ ~errors[2].hasStatus


\* C23: for every route the runner logs exactly one outcome line, a success
\* line if send returned a Response whose status is an integer and a failure
\* line otherwise; after a failure line nothing more is logged for that
\* route.  Runs ended by an exception of a hook or by an interrupt are left
\* out.
C23_Original ==
    /\ (pc \in {"sleep", "raised"} /\ exc.origin \in {"", "runner"}) =>
          /\ Len(OutcomeLines) = Len(sent)
          /\ OutcomeLines[Len(sent)].route = idx
          /\ OutcomeLines[Len(sent)].line = "ok" <=>
                (~result.none /\ result.intStatus)
          /\ OutcomeLines[Len(sent)].line = "ERR" => LastLine = "ERR"
    /\ (RunEnded /\ exc.origin \in {"", "runner"}) =>
          /\ Len(OutcomeLines) = Len(routes)
          /\ \A i \in 1..Len(routes) : OutcomeLines[i].route = i


\* C24: in a failing send the error record is logged before the first
\* on_error hook is called, every on_error hook is called before send
\* returns, and what the hooks return changes nothing: send returns None.
C24_FailureOrder ==
    /\ \A j \in 1..Len(trace) :
          trace[j] = Ev("on_error", 1) =>
              (j > 1 /\ trace[j - 1].op = "log_error")
    /\ pc = "on_error" =>
          (errors # <<>> /\ \E i \in 1..Len(trace) : trace[i].op = "log_error")
    /\ (SendEnded /\ LastOutcome = "None") =>
          /\ errors # <<>>
          /\ result.none
          /\ \A p \in 1..mwCount :
                \E i, j \in 1..Len(trace) :
                    /\ i < j
                    /\ trace[i].op = "log_error"
                    /\ trace[j] = Ev("on_error", p)
    /\ (SendEnded /\ errors # <<>> /\ \A j \in 1..Len(errCalls) : ~errCalls[j].raised) =>
          LastOutcome = "None"

\* a timeout through a chain of two: the record is logged, then both hooks
\* are called, then send returns None
C24_Witness ==
    /\ SendEnded
    /\ LastOutcome = "None"
    /\ mwCount = 2
    /\ treply.kind = "fault"
    /\ treply.fault = "TimeoutError"
    /\ Len(trace) >= 3
    /\ trace[Len(trace) - 2].op = "log_error"
    /\ trace[Len(trace) - 1] = Ev("on_error", 1)
    /\ trace[Len(trace)] = Ev("on_error", 2)


\* every hook called so far in the send behaved as the default of
\* BaseMiddleware: it returned what it was given and did not raise
DefaultChain ==
    /\ \A j \in 1..Len(beforeLog) : beforeLog[j].out = beforeLog[j].in
    /\ \A j \in 1..Len(afterLog) : afterLog[j].out = afterLog[j].in
    /\ ~HookRaised

\* C25: with an empty chain the before_request chain returns the config it
\* was given and the after_response chain the Response it was given; a
\* chain of default hooks, whatever its length, gives the transport
\* arguments, the handler argument, the send result and the error record
\* of the empty chain.
C25_DefaultChainIdentity ==
    (Len(sent) > 0 /\ DefaultChain) =>
        LET r == NewResponse("engine", treply.status, treply.body, "server") IN
        /\ pc \in {"before", "after", "on_error", "returned"} =>
              config = [ref |-> "default", val |-> startConfig]
        /\ request_configs[SentRoute.method] = startConfig
        /\ tcalls # <<>> =>
              /\ tcalls[1].method = SentRoute.method
              /\ tcalls[1].url = SentRoute.url
              /\ tcalls[1].headers =
                   [none |-> ~startConfig.hasHeaders, v |-> startConfig.headers]
              /\ tcalls[1].timeout =
                   [none |-> ~startConfig.hasTimeout, v |-> startConfig.timeout]
        /\ pc = "after" => response = r
        /\ handlerLog # <<>> => handlerLog[1].arg = r
        /\ (SendEnded /\ LastOutcome = "Response") =>
              LET v == handlerLog[1].ret IN
              /\ v.tag = "Response" => result.id = "handler" \/ result = r
              /\ v.tag = "str" => result = [r EXCEPT !.text = v.v, !.hr = v]
              /\ v.tag = "other" => result = [r EXCEPT !.hr = v]
              /\ v.tag = "None" => result = r
        /\ Len(errors) <= 1
        /\ Len(SelectSeq(trace, LAMBDA e : e.op = "log_error")) = Len(errors)
        /\ errors # <<>> =>
              /\ errors[1].url = SentRoute.url
              /\ errors[1].method = SentRoute.method
              /\ errors[1].kind = "Timeout" =>
                    errors[1].timeout =
                        IF ~startConfig.hasTimeout THEN [tag |-> "default", v |-> 0]
                        ELSE IF startConfig.timeout = 0 THEN [tag |-> "absent", v |-> 0]
                        ELSE [tag |-> "int", v |-> startConfig.timeout]

\* a send through two default hooks with the example defaults: the transport
\* gets the default headers and the handler the engine's Response
C25_Witness ==
    /\ SendEnded
    /\ LastOutcome = "Response"
    /\ mwCount = 2
    /\ Len(beforeLog) = 2
    /\ Len(afterLog) = 2
    /\ DefaultChain
    /\ startConfig = ExampleConfig
    /\ ~tcalls[1].headers.none
    /\ handlerLog[1].ret.tag = "None"
    /\ result.id = "engine"


\* the list the middleware argument stands for
GivenList ==
    CASE middleware.tag = "None" -> <<>>
      [] middleware.tag = "single" -> middleware.v
      [] OTHER -> middleware.v

\* the instances whose hook was called, in the order of the calls
Called(calls) == [j \in 1..Len(calls) |-> middlewares[calls[j].k]]

\* C26: an application built with one middleware instance behaves as one
\* built with the list of it, one built with none as one built with the
\* empty list; the chain keeps the given order, with repetitions: in a send
\* the before_request hooks, the after_response hooks and the on_error
\* hooks are called on the instances of the given list, one call for each
\* place of the list, in its order.
C26_ChainConstruction ==
    /\ middlewares = GivenList
    /\ tcalls # <<>> => Called(beforeLog) = GivenList
    /\ handlerLog # <<>> => Called(afterLog) = GivenList
    /\ (SendEnded /\ LastOutcome = "None"
          /\ \A j \in 1..Len(errCalls) : ~errCalls[j].raised) =>
          Called(errCalls) = GivenList

\* a send of an application built with the same instance listed twice:
\* its before_request and after_response hooks were called twice each
C26_Witness ==
    /\ middleware = MiddlewareList(<<"a", "a">>)
    /\ SendEnded
    /\ LastOutcome = "Response"
    /\ Called(beforeLog) = <<"a", "a">>
    /\ Called(afterLog) = <<"a", "a">>


\* C27: no step of send or of the runner loop changes the route list or
\* any route of it: once the run has started, the list stays what it was.
C27_RoutesImmutable ==
    [][pc' \notin {"idle", "aborted"} => routes' = routes]_vars

\* a run of two different routes that came to its end: both were sent and
\* the list still holds them in their order
C27_Witness ==
    /\ pc = "done"
    /\ LastLine = "Done"
    /\ Len(routes) = 2
    /\ routes[1] # routes[2]
    /\ sent = <<1, 2>>


\* C28: handle_error logs the error record and then raises it if and only
\* if raise_it is true, returning normally otherwise; send never calls
\* handle_error and never raises an error record it built: every record of
\* a send is logged once, by send, and what leaves send is the exception of
\* a hook or of the transport.
C28_HandleError ==
    /\ \A i \in 1..Len(handled) :
          /\ handled[i].steps[1] = "log"
          /\ Len(handled[i].steps) = 2
          /\ handled[i].steps[2] = "raise" <=> handled[i].raise_it
          /\ handled[i].steps[2] = "return" <=> ~handled[i].raise_it
    /\ Len(handled) <= 1
    /\ Len(SelectSeq(trace, LAMBDA e : e.op = "log_error")) = Len(errors)
    /\ exc.type \notin {"BadStatus", "Connection", "Timeout", "Request"}
    /\ (SendEnded /\ LastOutcome = "raised") =>
          exc.origin \in {"before_request", "config", "on_error", "transport",
                          "handler", "after_response"}

\* handle_error was called with raise_it false on a BadStatus record and
\* returned; a later send built and logged a record and returned None
C28_Witness ==
    /\ Len(handled) = 1
    /\ ~handled[1].raise_it
    /\ handled[1].error.kind = "BadStatus"
    /\ handled[1].steps = <<"log", "return">>
    /\ SendEnded
    /\ LastOutcome = "None"
    /\ Len(errors) = 1


\* C29: an interrupt delivered while a route is in flight is not absorbed
\* by send: no error record is built for it, no on_error hook is called and
\* send does not return None; the loop is left, no later route is sent, the
\* session is released, and run logs the interruption and returns.
C29_UserInterrupt ==
    /\ (treply.kind = "fault" /\ treply.fault = "KeyboardInterrupt") =>
          /\ exc = [type |-> "KeyboardInterrupt", origin |-> "transport"]
          /\ errors = <<>>
          /\ errCalls = <<>>
          /\ \A i \in 1..Len(trace) : trace[i].op \notin {"log_error", "on_error"}
          /\ SendEnded
          /\ LastOutcome = "raised"
          /\ pc \in {"raised", "done"}
          /\ sent[Len(sent)] = idx
          /\ Len(OutcomeLines) = Len(sent) - 1
    /\ (exc.type = "KeyboardInterrupt" /\ pc = "done") =>
          /\ session = "closed"
          /\ LastLine = "Interrupted"
          /\ Len(pauses) = Len(sent) - 1

\* a run of two routes interrupted during the first: the second was never
\* sent, the session is closed and the interruption logged
C29_Witness ==
    /\ Len(routes) = 2
    /\ sent = <<1>>
    /\ outcomes = <<"raised">>
    /\ exc.type = "KeyboardInterrupt"
    /\ pc = "done"
    /\ session = "closed"
    /\ LastLine = "Interrupted"


\* C30: at most one error record is built and logged in a send; on a status
\* of 400 or more exactly one BadStatus record is logged and no record of
\* another kind, whatever the on_error hooks do.
C30_Original ==
    /\ Len(errors) <= 1
    /\ (treply.kind = "status" /\ treply.status >= 400) =>
          /\ Len(errors) = 1
          /\ errors[1].kind = "BadStatus"
          /\ Len(SelectSeq(trace, LAMBDA e : e.op = "log_error")) = 1


\* the handler of the send was called and raised
HandlerRaised == Len(handlerLog) = 1 /\ handlerLog[1].raised

\* C31 as stated: an exception raised by the handler is classified as a
\* generic Request error carrying the exception's text, every on_error hook
\* runs once in registration order, and send returns absence.
C31_Original ==
    (SendEnded /\ HandlerRaised) =>
        /\ Len(errors) = 1
        /\ errors[1].kind = "Request"
        /\ errors[1].message = handlerLog[1].text
        /\ OnErrorOnceInOrder
        /\ LastOutcome = "None"

\* C31 amended: an Exception raised by the handler on a status < 400
\* exchange, after the after_response hooks ran, is caught by the except
\* clause of its class: a Connection record for ClientConnectorError, a
\* Timeout record for TimeoutError, a generic Request record otherwise,
\* with the exception's text as message or the clause's default message
\* when the text is empty; the on_error hooks run in registration order up
\* to the first that raises; send returns absence unless an on_error hook
\* raises, and the runner then logs the failure line and goes on.
C31_HandlerException ==
    HandlerRaised =>
        LET h == handlerLog[1]
            kind == CASE h.etype = "ClientConnectorError" -> "Connection"
                      [] h.etype = "TimeoutError" -> "Timeout"
                      [] OTHER -> "Request" IN
        /\ treply.kind = "status"
        /\ treply.status < 400
        /\ Len(afterLog) = mwCount
        /\ Len(errors) = 1
        /\ errors[1].kind = kind
        /\ errors[1].url = SentRoute.url
        /\ errors[1].method = SentRoute.method
        /\ errors[1].message =
             IF h.text # "" THEN h.text
             ELSE CASE kind = "Connection" -> "Connection failed"
                    [] kind = "Timeout" -> "Request timed out"
                    [] OTHER -> "Unknown error"
        /\ \A j \in 1..Len(errCalls) :
              /\ errCalls[j].k = j
              /\ errCalls[j].kind = kind
              /\ errCalls[j].raised => j = Len(errCalls)
        /\ SendEnded =>
              \/ /\ LastOutcome = "None"
                 /\ result.none
                 /\ Len(errCalls) = mwCount
                 /\ \A j \in 1..Len(errCalls) : ~errCalls[j].raised
              \/ /\ LastOutcome = "raised"
                 /\ exc.origin = "on_error"
                 /\ errCalls[Len(errCalls)].raised
        /\ pc = "sleep" => (LastLine = "ERR" /\ log[Len(log)].route = idx)

\* a handler raising an Exception with a text on a 200, through a chain of
\* two: one Request record with that text, both on_error hooks called, the
\* failure line logged
C31_Witness ==
    /\ HandlerRaised
    /\ handlerLog[1].etype = "Exception"
    /\ handlerLog[1].text = "boom"
    /\ treply.status = 200
    /\ mwCount = 2
    /\ errors[1].kind = "Request"
    /\ errors[1].message = "boom"
    /\ Len(errCalls) = 2
    /\ pc = "sleep"
    /\ LastLine = "ERR"


\* the before_request chain of the send in hand ran to its end without
\* raising, and the send has gone past it
BeforeChainCompleted ==
    /\ Len(sent) > 0
    /\ Len(beforeLog) = mwCount
    /\ exc.origin # "before_request"
    /\ pc # "before"

\* the exchange of the send in hand has a status below 400, its
\* after_response chain ran to its end without raising, and the send has
\* gone past it
AfterChainCompleted ==
    /\ treply.kind = "status"
    /\ treply.status < 400
    /\ Len(afterLog) = mwCount
    /\ pc # "after"

\* every route of the list is sent at most once, and in one send the
\* transport and the handler are called at most once
AtMostOnce ==
    /\ \A i, j \in 1..Len(sent) : i # j => sent[i] # sent[j]
    /\ Len(tcalls) <= 1
    /\ Len(handlerLog) <= 1

BeforeHookRaised ==
    Len(SelectSeq(trace, LAMBDA e : e.op = "before_request")) > Len(beforeLog)

\* C33: when a before_request hook raises, the transport is not called for
\* that route, no error record is built or logged, no on_error hook is
\* called, the exception leaves send, and none of the remaining routes is
\* sent.
C33_BeforeRequestRaises ==
    BeforeHookRaised =>
        /\ tcalls = <<>>
        /\ treply = NoReply
        /\ errors = <<>>
        /\ errCalls = <<>>
        /\ afterLog = <<>>
        /\ handlerLog = <<>>
        /\ exc.origin = "before_request"
        /\ SendEnded
        /\ LastOutcome = "raised"
        /\ pc \in {"raised", "done", "unhandled"}
        /\ sent = [i \in 1..idx |-> i]
        /\ Len(OutcomeLines) = idx - 1
        /\ pc # "raised" => session = "closed"

\* a run of two routes through one middleware: its before_request hook
\* raised in the first send, the run ended with the second route unsent
C33_Witness ==
    /\ Len(routes) = 2
    /\ mwCount = 1
    /\ sent = <<1>>
    /\ exc.origin = "before_request"
    /\ trace = <<Ev("before_request", 1)>>
    /\ beforeLog = <<>>
    /\ pc = "unhandled"
    /\ session = "closed"


\* C34: the config given to every after_response hook and every on_error
\* hook of a send is the config the send's before_request chain returned,
\* the one whose headers and timeout were given to the transport.
C34_HookConfig ==
    /\ \A j \in 1..Len(afterLog) : afterLog[j].cfg = FinalConfig.val
    /\ \A j \in 1..Len(errCalls) : errCalls[j].cfg = FinalConfig.val
    /\ (afterLog # <<>> \/ errCalls # <<>>) =>
          /\ Len(beforeLog) = mwCount
          /\ Len(tcalls) = 1
          /\ tcalls[1].headers =
               [none |-> ~FinalConfig.val.hasHeaders, v |-> FinalConfig.val.headers]
          /\ tcalls[1].timeout =
               [none |-> ~FinalConfig.val.hasTimeout, v |-> FinalConfig.val.timeout]

\* a chain of two whose second before_request hook returned a new config
\* with its own header and timeout: the on_error hooks of a failed send got
\* that config, not the default
C34_Witness ==
    /\ mwCount = 2
    /\ Len(beforeLog) = 2
    /\ beforeLog[2].out.ref = "fresh"
    /\ FinalConfig.val # startConfig
    /\ Len(errCalls) = 2
    /\ errCalls[1].cfg = beforeLog[2].out.val
    /\ errCalls[2].cfg = beforeLog[2].out.val
    /\ HookHeader(2) \in errCalls[2].cfg.headers
    /\ SendEnded
    /\ LastOutcome = "None"


\* C35: when an on_error hook raises during a send, no on_error hook is
\* called a second time in that send: the hooks before the raising one ran
\* once, the raising hook once, the hooks after it not at all, whatever the
\* kind of the failure.
C35_Original ==
    \A j \in 1..Len(errCalls) :
        errCalls[j].raised =>
            /\ Len(errCalls) = j
            /\ \A i \in 1..j : errCalls[i].k = i

====
